---------------------------- MODULE Spec2Model ----------------------------
(***************************************************************************)
(* Model of nxstyle (src/nxtool/nxstyle/nxstyle.py): the capture           *)
(* dispatcher CChecker.check_style, the layout validator (__check_indents  *)
(* and its per-statement handlers, __check_body), the spacing validator    *)
(* (__check_whitespaces) and the struct / enum / pointer rules.            *)
(*                                                                         *)
(* The syntax tree and the captures are inputs: Init draws them from       *)
(* bounded sets of C fragments laid out in the shapes tree-sitter's C      *)
(* grammar gives them.  A node is a record                                 *)
(*   [type, named, field, row, col, erow, ecol, children, text]            *)
(* (start_point = (row, col), end_point = (erow, ecol)); node text is a    *)
(* sequence of one-character strings.                                      *)
(***************************************************************************)
EXTENDS Integers, Sequences, FiniteSets, TLC

VARIABLES
  captures,        \* self.captures: capture name -> sequence of captured nodes
  nuttx_codebase,  \* self.nuttx_codebase
  group,           \* the capture group check_style is working on
  idx,             \* index of the next capture of that group
  out,             \* the diagnostics printed so far, in order
  raised,          \* an uncaught exception ended check_style
  calls,           \* history: every recursive call the layout validator made
  bodies,          \* history: every __check_body call, with what it printed
  spaced           \* history: the captures __check_whitespaces was run on

vars == <<captures, nuttx_codebase, group, idx, out, raised, calls, bodies, spaced>>

(***************************************************************************)
(* Bounds of the input space.                                              *)
(***************************************************************************)
MaxDepth == 2      \* nesting depth of compound constructs in a function body
MaxCases == 2      \* children of a switch body
MaxChain == 2      \* length of an else-if chain
MaxDev   == 2      \* layout choices that differ from the base layout
MaxArgs  == 3      \* arguments of an argument list

(***************************************************************************)
(* Text: Python's re on node.text.decode().                                *)
(***************************************************************************)
WS == {" ", "\t", "\n"}          \* \s

IsWs(t, i) == i >= 1 /\ i <= Len(t) /\ t[i] \in WS

\* t[i..] starts with the literal w
StartsAt(t, i, w) ==
  /\ i >= 1
  /\ i + Len(w) - 1 <= Len(t)
  /\ \A k \in 1..Len(w) : t[i + k - 1] = w[k]

Contains(t, w) == \E i \in 1..Len(t) : StartsAt(t, i, w)

RECURSIVE Concat(_)
Concat(ss) == IF ss = <<>> THEN <<>> ELSE Head(ss) \o Concat(Tail(ss))

(***************************************************************************)
(* Diagnostics: style_assert(check, self.error(point, text)) prints the    *)
(* message when check is True.  A diagnostic is kept as its position and   *)
(* message; "Wrong indentation" carries its Expected / Actual values.      *)
(***************************************************************************)
Diag(msg, row, col) == [msg |-> msg, row |-> row, col |-> col, exp |-> -1, act |-> -1]

WrongIndentation(row, col, exp, act) ==
  [msg |-> "Wrong indentation", row |-> row, col |-> col, exp |-> exp, act |-> act]

style_assert(check, d) == IF check THEN <<d>> ELSE <<>>

(***************************************************************************)
(* __check_whitespaces: five independent regular-expression searches.      *)
(***************************************************************************)
\* the character class [+\*\/%&|^<>!=] of the operator pattern
OperatorClass == {"+", "*", "/", "%", "&", "|", "^", "<", ">", "!", "="}

\* lengths of the alternatives of (\|\||&&|<<=|>>=|[+\*\/%&|^<>!=]=) that match at i
OperatorMatch(t, i) ==
  {2 : x \in {w \in {<<"|", "|">>, <<"&", "&">>} : StartsAt(t, i, w)}}
    \cup {3 : x \in {w \in {<<"<", "<", "=">>, <<">", ">", "=">>} : StartsAt(t, i, w)}}
    \cup {2 : x \in {c \in OperatorClass : StartsAt(t, i, <<c, "=">>)}}

\* re.search(r"\(\s+", t)
SearchOpenParen(t) == \E i \in 1..Len(t) : t[i] = "(" /\ IsWs(t, i + 1)

\* re.search(r"\s+\)", t)
SearchCloseParen(t) == \E i \in 1..Len(t) : t[i] \in WS /\ StartsAt(t, i + 1, <<")">>)

\* re.search(r"(?<!\s)(\|\||&&|<<=|>>=|[+\*\/%&|^<>!=]=)", t)
SearchBeforeOperator(t) ==
  \E i \in 1..Len(t) : ~IsWs(t, i - 1) /\ OperatorMatch(t, i) # {}

\* re.search(r"(\|\||&&|<<=|>>=|[+\*\/%&|^<>!=]=)(?!\s)", t)
SearchAfterOperator(t) ==
  \E i \in 1..Len(t) : \E n \in OperatorMatch(t, i) : ~IsWs(t, i + n)

\* the end of the leftmost-shortest match of [\"\'].*?\" starting at i, 0 if none
\* ("." matches no newline)
QuotedEnd(t, i) ==
  IF i <= Len(t) /\ t[i] \in {"\"", "'"} /\ (\E j \in (i + 1)..Len(t) : t[j] = "\"")
  THEN LET j == CHOOSE j \in (i + 1)..Len(t) :
                  t[j] = "\"" /\ \A k \in (i + 1)..(j - 1) : t[k] # "\""
       IN IF \E k \in (i + 1)..(j - 1) : t[k] = "\n" THEN 0 ELSE j
  ELSE 0

\* re.sub(r"([\"\'].*?\")", "", t), from position i on
RECURSIVE SubQuoted(_, _)
SubQuoted(t, i) ==
  IF i > Len(t) THEN <<>>
  ELSE IF QuotedEnd(t, i) # 0 THEN SubQuoted(t, QuotedEnd(t, i) + 1)
  ELSE <<t[i]>> \o SubQuoted(t, i + 1)

\* re.search(r",(?!\s)", re.sub(r"([\"\'].*?\")", "", t))
SearchComma(t) ==
  LET u == SubQuoted(t, 1) IN \E i \in 1..Len(u) : u[i] = "," /\ ~IsWs(u, i + 1)

check_whitespaces(node) ==
  style_assert(SearchOpenParen(node.text),
               Diag("Whitespace after open paranthesis", node.row, node.col))
  \o style_assert(SearchCloseParen(node.text),
               Diag("Whitespace before close paranthesis", node.row, node.col))
  \o style_assert(SearchBeforeOperator(node.text),
               Diag("Missing whitespaces before operator", node.row, node.col))
  \o style_assert(SearchAfterOperator(node.text),
               Diag("Missing whitespaces after operator", node.row, node.col))
  \o style_assert(SearchComma(node.text),
               Diag("Missing whitespaces after comma", node.row, node.col))

\* the keyword check of check_style on an expression.paranthesis capture
check_keyword_space(m) ==
  style_assert(m.col - m.prev_ecol # 1,
               Diag("There should be exacly one whitespace after keyword", m.row, m.col))

KeywordParents ==
  {"if_statement", "for_statement", "while_statement", "do_statement", "switch_statement"}

(***************************************************************************)
(* __check_pointer_declarator                                              *)
(***************************************************************************)
Qualifiers == {<<"F", "A", "R">>, <<"N", "E", "A", "R">>, <<"D", "S", "E", "G">>,
               <<"C", "O", "D", "E">>}

check_pointer_declarator(nuttx, node) ==
  (IF nuttx
   THEN style_assert(~(\E q \in Qualifiers : Contains(node.text, q)),
                     Diag("Pointer qualifier missing", node.row, node.col))
   ELSE <<>>)
  \o style_assert(\E i \in 1..Len(node.text) : node.text[i] = "*" /\ ~IsWs(node.text, i - 1),
                  Diag("Missing whitespace before pointer", node.row, node.col))

(***************************************************************************)
(* Nodes of the syntax tree.                                               *)
(***************************************************************************)
None ==
  [type |-> "None", named |-> FALSE, field |-> "", row |-> 0, col |-> 0,
   erow |-> 0, ecol |-> 0, children |-> <<>>, text |-> <<>>]

\* node.named_children
named_children(node) == SelectSeq(node.children, LAMBDA c : c.named)

\* the index of the child in field f, 0 if there is none
FieldIndex(node, f) ==
  IF \E i \in 1..Len(node.children) : node.children[i].field = f
  THEN CHOOSE i \in 1..Len(node.children) :
         node.children[i].field = f /\ \A k \in 1..(i - 1) : node.children[k].field # f
  ELSE 0

\* node.child_by_field_name(f)
child_by_field_name(node, f) ==
  IF FieldIndex(node, f) = 0 THEN None ELSE node.children[FieldIndex(node, f)]

\* child.prev_sibling, for the child at index i of parent
prev_sibling(parent, i) == IF i > 1 THEN parent.children[i - 1] ELSE None

(***************************************************************************)
(* The result of a handler: what it printed, whether an exception left     *)
(* it, and the history of the calls made inside it.  Then(a, b) is "a; b": *)
(* nothing of b happens once a has raised.                                 *)
(***************************************************************************)
Ok == [out |-> <<>>, raised |-> FALSE, calls |-> {}, bodies |-> {}]

Raise == [Ok EXCEPT !.raised = TRUE]

Emit(check, d) == [Ok EXCEPT !.out = style_assert(check, d)]

Then(a, b) ==
  IF a.raised THEN a
  ELSE [out |-> a.out \o b.out, raised |-> b.raised,
        calls |-> a.calls \cup b.calls, bodies |-> a.bodies \cup b.bodies]

\* history: handler `from` running at `findent` called `fn` with `indent` on `node`
Call(from, findent, fn, indent, node, via) ==
  [Ok EXCEPT !.calls = {[from |-> from, findent |-> findent, fn |-> fn,
                         indent |-> indent, node |-> node, via |-> via]}]

(***************************************************************************)
(* The indent each handler passes on.                                      *)
(***************************************************************************)
FunctionBodyIndent == 2

\* __check_indents, to the named children of a propagating kind
PropagatedIndent(indent) == indent + 2

\* a variant that hands the body's own indent on to its children
BodyChildIndentSame(indent) == indent

\* __check_body, to the named children of the body
BodyChildIndent(indent) == indent + 2

\* the handlers of if / else / for / while / do, to __check_body
BraceIndent(indent) == indent + 2

\* __check_indents_if_statement, to the alternative
AlternativeIndent(indent) == indent

\* __check_indents_for_statement, to the named children of an un-braced body
UnbracedIndent(indent) == indent + 4

\* __check_indents_switch_statement: the braces of the body, and the case statements
SwitchBraceIndent(indent) == indent + 2

CaseIndent(indent) == indent + 4

\* __check_indents_case_statement: what follows the colon
CaseBodyIndent(indent) == indent + 2

\* __check_indents_case_statement: the number of children before the body
CaseOffset(kw) == IF kw.type = "case" THEN 3 ELSE 2

PropagatingKinds ==
  {"return_statement", "expression_statement", "declaration", "break_statement",
   "field_declaration", "enumerator"}

(***************************************************************************)
(* The checks of one brace or one start column.                            *)
(***************************************************************************)
\* __check_indents: the closing assert on the node's own start column
OwnColumnCheck(indent, node) ==
  Emit(node.col # indent, WrongIndentation(node.row, node.col, indent, node.col))

\* __check_body: the two asserts on the opening brace
OpenBraceRowCheck(indent, node) ==
  Emit(node.children[1].row = node.children[2].row,
       Diag("Left bracket not on separate line", node.row, node.col))

\* a variant that expects the opening brace one level further in
OpenBraceColumnCheckDeeper(indent, node) ==
  Emit(node.children[1].col # indent + 2,
       WrongIndentation(node.row, node.col, indent + 2, node.children[1].col))

OpenBraceColumnCheck(indent, node) ==
  Emit(node.children[1].col # indent,
       WrongIndentation(node.row, node.col, indent, node.children[1].col))

\* __check_body: the two asserts on the closing brace
CloseBraceRowCheck(indent, node) ==
  LET n == Len(node.children) IN
  Emit(node.children[n].row = node.children[n - 1].row,
       Diag("Right bracket not on separate line", node.row, node.col))

\* a variant that looks at the first child (index 0) in place of the last (-1)
CloseBraceColumnCheckFirst(indent, node) ==
  LET first == node.children[1] IN
  Emit(first.col # indent, WrongIndentation(first.row, first.col, indent, first.col))

CloseBraceColumnCheck(indent, node) ==
  LET last == node.children[Len(node.children)] IN
  Emit(last.col # indent, WrongIndentation(last.row, last.col, indent, last.col))

\* the assert a handler makes on the row of a body against the row of `other`
\* (the statement's keyword, or the body's previous sibling)
\* a variant with the comparison inverted
HeaderRowCheckInverted(body, other) ==
  Emit(body.row # other.row, Diag("Left bracket not on separate line", body.row, body.col))

HeaderRowCheck(body, other) ==
  Emit(body.row = other.row, Diag("Left bracket not on separate line", body.row, body.col))

(***************************************************************************)
(* The layout validator.  Every call site records the call in the history  *)
(* before it makes it.                                                     *)
(***************************************************************************)
RECURSIVE check_indents(_, _), check_body(_, _), check_each(_, _, _, _, _, _),
          check_indents_if_statement(_, _), if_fields(_, _),
          check_indents_for_statement(_, _), check_indents_while_statement(_, _),
          check_indents_switch_statement(_, _), check_indents_case_statement(_, _),
          check_cases(_, _, _, _)

\* for n in nodes[k..]: self.__check_indents(indent, n)
check_each(from, findent, via, indent, nodes, k) ==
  IF k > Len(nodes) THEN Ok
  ELSE Then(Call(from, findent, "__check_indents", indent, nodes[k], via),
       Then(check_indents(indent, nodes[k]),
            check_each(from, findent, via, indent, nodes, k + 1)))

\* self.__check_body(indent, node), called by `from`
call_body(from, findent, indent, node) ==
  Then(Call(from, findent, "__check_body", indent, node, "body"),
       check_body(indent, node))

check_indents(indent, node) ==
  IF node.type \in {"if_statement", "else_clause"}
  THEN Then(Call("__check_indents", indent, "__check_indents_if_statement", indent, node, "dispatch"),
       Then(check_indents_if_statement(indent, node), OwnColumnCheck(indent, node)))
  ELSE IF node.type = "for_statement"
  THEN Then(Call("__check_indents", indent, "__check_indents_for_statement", indent, node, "dispatch"),
       Then(check_indents_for_statement(indent, node), OwnColumnCheck(indent, node)))
  ELSE IF node.type \in {"while_statement", "do_statement"}
  THEN Then(Call("__check_indents", indent, "__check_indents_while_statement", indent, node, "dispatch"),
       Then(check_indents_while_statement(indent, node), OwnColumnCheck(indent, node)))
  ELSE IF node.type = "switch_statement"
  THEN Then(Call("__check_indents", indent, "__check_indents_switch_statement", indent, node, "dispatch"),
       Then(check_indents_switch_statement(indent, node), OwnColumnCheck(indent, node)))
  ELSE IF node.type \in PropagatingKinds
  THEN Then(check_each("__check_indents", indent, "named_child", PropagatedIndent(indent),
                       named_children(node), 1),
            OwnColumnCheck(indent, node))
  ELSE Ok

check_body(indent, node) ==
  LET pre   == IF node.type = "expression_statement"
               THEN Then(Call("__check_body", indent, "__check_indents", indent, node, "self"),
                         check_indents(indent, node))
               ELSE Ok
      \* node.children[1] of a node with fewer than two children: IndexError
      open  == IF Len(node.children) < 2 THEN Raise
               ELSE Then(OpenBraceRowCheck(indent, node), OpenBraceColumnCheck(indent, node))
      kids  == check_each("__check_body", indent, "named_child", BodyChildIndent(indent),
                          named_children(node), 1)
      close == Then(CloseBraceRowCheck(indent, node), CloseBraceColumnCheck(indent, node))
      head  == Then(pre, open)
      all   == Then(head, Then(kids, close))
      done  == ~all.raised
      this  == [indent |-> indent, node |-> node,
                open |-> IF pre.raised THEN <<>> ELSE open.out,
                kids |-> IF head.raised THEN <<>> ELSE kids.out,
                close |-> IF done THEN close.out ELSE <<>>,
                kidsdone |-> ~head.raised /\ ~kids.raised,
                returned |-> done]
  IN [all EXCEPT !.bodies = @ \cup {this}]

\* the consequence and the alternative of an if_statement
if_fields(indent, node) ==
  LET consequence == child_by_field_name(node, "consequence")
      alternative == child_by_field_name(node, "alternative")
  IN Then(IF consequence # None
          THEN Then(HeaderRowCheck(consequence, node),
                    call_body("__check_indents_if_statement", indent, BraceIndent(indent),
                              consequence))
          ELSE Ok,
          IF alternative # None
          THEN check_each("__check_indents_if_statement", indent, "alternative",
                          AlternativeIndent(indent), <<alternative>>, 1)
          ELSE Ok)

check_indents_if_statement(indent, node) ==
  IF node.type = "else_clause"
  THEN IF Len(node.children) < 2 THEN Raise
       ELSE LET second_child == node.children[2] IN
            IF second_child.type # "if_statement"
            THEN call_body("__check_indents_if_statement", indent, BraceIndent(indent),
                           second_child)
            ELSE Then(Emit(second_child.row # node.row,
                           Diag("If keyword not inlined with else keyword",
                                second_child.row, second_child.col)),
                      if_fields(indent, second_child))
  ELSE if_fields(indent, node)

check_indents_for_statement(indent, node) ==
  LET body == child_by_field_name(node, "body")
      prev == prev_sibling(node, FieldIndex(node, "body"))
  IN IF body = None THEN Ok
     ELSE IF prev = None THEN Ok
     ELSE IF body.type = "compound_statement"
     THEN Then(HeaderRowCheck(body, prev),
               call_body("__check_indents_for_statement", indent, BraceIndent(indent), body))
     ELSE IF body.type = "expression_statement"
     THEN IF Len(named_children(body)) = 0
          THEN Emit(prev.row # body.row,
                    Diag("Empty body should be inline with last node", body.row, body.col))
          ELSE check_each("__check_indents_for_statement", indent, "unbraced",
                          UnbracedIndent(indent), named_children(body), 1)
     ELSE Ok

check_indents_while_statement(indent, node) ==
  LET body == child_by_field_name(node, "body")
      prev == prev_sibling(node, FieldIndex(node, "body"))
  IN IF body = None THEN Ok
     ELSE IF prev = None THEN Ok
     ELSE Then(HeaderRowCheck(body, prev),
               call_body("__check_indents_while_statement", indent, BraceIndent(indent), body))

\* for n in case_statements[k..]: self.__check_indents_case_statement(indent, n)
check_cases(findent, indent, nodes, k) ==
  IF k > Len(nodes) THEN Ok
  ELSE Then(Call("__check_indents_switch_statement", findent, "__check_indents_case_statement",
                 indent, nodes[k], "case"),
       Then(check_indents_case_statement(indent, nodes[k]),
            check_cases(findent, indent, nodes, k + 1)))

check_indents_switch_statement(indent, node) ==
  LET body == child_by_field_name(node, "body")
      prev == prev_sibling(node, FieldIndex(node, "body"))
      n    == Len(body.children)
      case_statements == SelectSeq(named_children(body), LAMBDA c : c.type = "case_statement")
  IN IF body = None THEN Ok
     ELSE IF prev = None THEN Ok
     ELSE Then(HeaderRowCheck(body, prev),
          Then(Emit(body.col # SwitchBraceIndent(indent),
                    WrongIndentation(body.row, body.col, SwitchBraceIndent(indent), body.col)),
          Then(check_cases(indent, CaseIndent(indent), case_statements, 1),
               \* body.children[-2] of a body with fewer than two children: IndexError
               IF n < 2 THEN Raise
               ELSE Then(Emit(body.children[n].row = body.children[n - 1].row,
                              Diag("Left bracket not on separate line", body.row, body.col)),
                         Emit(body.children[n].col # SwitchBraceIndent(indent),
                              WrongIndentation(body.children[n].row, body.children[n].col,
                                               SwitchBraceIndent(indent),
                                               body.children[n].col))))))

check_indents_case_statement(indent, node) ==
  \* node.children[0], node.children[offset]: IndexError when there is no such child
  IF Len(node.children) < 1 THEN Raise
  ELSE LET offset == CaseOffset(node.children[1]) IN
       IF Len(node.children) < offset + 1 THEN Raise
       ELSE LET body == node.children[offset + 1]
                prev == prev_sibling(node, offset + 1)
            IN Then(OwnColumnCheck(indent, node),
                    IF body.type = "compound_statement"
                    THEN IF prev = None THEN Ok
                         ELSE Then(HeaderRowCheck(body, prev),
                                   call_body("__check_indents_case_statement", indent,
                                             CaseBodyIndent(indent), body))
                    ELSE check_each("__check_indents_case_statement", indent, "case_child",
                                    CaseBodyIndent(indent),
                                    SubSeq(node.children, offset + 1, Len(node.children)), 1))

(***************************************************************************)
(* __check_structs and __check_enums                                       *)
(***************************************************************************)
\* re.search(r".*_s$", text): the text ends with the suffix
EndsWith(text, suffix) ==
  Len(text) >= Len(suffix) /\ StartsAt(text, Len(text) - Len(suffix) + 1, suffix)

\* the body both rules share, for the keyword `what` and the suffix letter
check_tagged(fn, what, suffix, anonymous, missing, node) ==
  LET name   == child_by_field_name(node, "name")
      body   == child_by_field_name(node, "body")
      prev   == prev_sibling(node, FieldIndex(node, "body"))
      indent == node.col
  IN IF body = None \/ prev = None THEN Ok
     ELSE Then(IF name = None
               THEN Emit(TRUE, Diag(anonymous, node.row, node.col))
               ELSE Emit(~EndsWith(name.text, suffix), Diag(missing, node.row, node.col)),
          Then(HeaderRowCheck(body, prev),
               call_body(fn, indent, indent, body)))

check_structs(node) ==
  check_tagged("__check_structs", "struct", <<"_", "s">>, "Avoid anonymous structs",
               "Struct name should end in \"_s\"", node)

check_enums(node) ==
  check_tagged("__check_enums", "enum", <<"_", "e">>, "Avoid anonymous enums",
               "Struct name should end in \"_e\"", node)

(***************************************************************************)
(* Inputs.  A C fragment is a skeleton (the statements and how they nest)  *)
(* laid out by a layout P (where its braces, statements and keywords are   *)
(* put); Lay gives the tree of position-tagged nodes the parser returns    *)
(* for that text.  Token widths are those of the tokens written.           *)
(***************************************************************************)
Leaf(type, named, row, col, width) ==
  [type |-> type, named |-> named, field |-> "", row |-> row, col |-> col,
   erow |-> row, ecol |-> col + width, children |-> <<>>, text |-> <<>>]

Tree(type, children) ==
  [type |-> type, named |-> TRUE, field |-> "",
   row |-> children[1].row, col |-> children[1].col,
   erow |-> children[Len(children)].erow, ecol |-> children[Len(children)].ecol,
   children |-> children, text |-> <<>>]

InField(f, node) == [node EXCEPT !.field = f]

WithText(t, node) == [node EXCEPT !.text = t]

\* `(x)`
Paren(row, col) == InField("condition", Leaf("parenthesized_expression", TRUE, row, col, 3))

\* a skeleton: kind, the statements of its body, whether the body is braced,
\* and its else part (empty, or one skeleton of kind "else" or "if")
Sk(k, body, braced, alt) == [k |-> k, body |-> body, braced |-> braced, alt |-> alt]

SkLeaf(k) == Sk(k, <<>>, FALSE, <<>>)

\* the layout of NuttX's coding standard, and the values each choice ranges over
BaseLayout ==
  [top |-> 2, open |-> "own", brace |-> 2, stmt |-> 4, closeat |-> "own", close |-> 2,
   case |-> 4, else |-> "own", elseoff |-> 0, elif |-> "same", ubody |-> "own"]

LayoutChoices ==
  [top : {0, 2}, open : {"own", "same", "tight"}, brace : {0, 2, 4}, stmt : {2, 4, 6},
   closeat : {"own", "same"}, close : {0, 2}, case : {2, 4}, else : {"own", "same"},
   elseoff : {0, 2}, elif : {"same", "own"}, ubody : {"own", "same"}]

Layouts ==
  {P \in LayoutChoices :
     Cardinality({f \in DOMAIN BaseLayout : P[f] # BaseLayout[f]}) <= MaxDev}

RECURSIVE Lay(_, _, _, _, _), LaySeq(_, _, _, _), LayBlock(_, _, _, _, _, _, _),
          LayBody(_, _, _, _, _), LayIf(_, _, _, _, _), LayElse(_, _, _, _, _)

\* the statement n, and the statements sks one to a row after it at column c
LaySeqAfter(n, sks, c, P) == <<n>> \o LaySeq(sks, n.erow + 1, c, P)

\* statements one to a row from row r on, each starting at column c
LaySeq(sks, r, c, P) ==
  IF sks = <<>> THEN <<>> ELSE LaySeqAfter(Lay(Head(sks), r, c, c, P), Tail(sks), c, P)

\* the opening brace after a header that ends at (hr, hecol)
OpenBrace(hr, hecol, c, P) ==
  IF P.open = "own" THEN Leaf("{", FALSE, hr + 1, c + P.brace, 1)
  ELSE IF P.open = "same" THEN Leaf("{", FALSE, hr, hecol + 1, 1)
  ELSE Leaf("{", FALSE, hr, hecol, 1)

\* the closing brace after the node last
CloseBrace(last, c, P) ==
  IF P.closeat = "own" THEN Leaf("}", FALSE, last.erow + 1, c + P.close, 1)
  ELSE Leaf("}", FALSE, last.erow, last.ecol + 1, 1)

\* open, the members kids, and the closing brace
Enclose(type, open, kids, c, P) ==
  Tree(type, <<open>> \o kids
               \o <<CloseBrace(IF kids = <<>> THEN open ELSE kids[Len(kids)], c, P)>>)

LayMembers(type, open, sks, c, kc, P) ==
  Enclose(type, open, LaySeq(sks, open.row + 1, kc, P), c, P)

\* a brace-delimited list after a header that ends at (hr, hecol), for the
\* statement at column c, its members at column kc
LayBlock(type, sks, hr, hecol, c, kc, P) ==
  LayMembers(type, OpenBrace(hr, hecol, c, P), sks, c, kc, P)

\* the body of sk after a header that ends at (hr, hecol)
LayBody(sk, hr, hecol, c, P) ==
  IF sk.braced THEN LayBlock("compound_statement", sk.body, hr, hecol, c, c + P.stmt, P)
  ELSE LET col == IF P.ubody = "same" THEN hecol + 1 ELSE c + P.stmt
       IN Lay(sk.body[1], IF P.ubody = "same" THEN hr ELSE hr + 1, col, col, P)

\* `else` after a part that ends at (pr, pecol)
ElseKeyword(pr, pecol, c, P) ==
  IF P.else = "own" THEN Leaf("else", FALSE, pr + 1, c + P.elseoff, 4)
  ELSE Leaf("else", FALSE, pr, pecol + 1, 4)

LayElseAfter(kw, a, c, P) ==
  Tree("else_clause",
       <<kw, IF a.k = "if"
             THEN LayIf(a, IF P.elif = "same" THEN kw.row ELSE kw.row + 1,
                        IF P.elif = "same" THEN kw.ecol + 1 ELSE c, c, P)
             ELSE LayBody(a, kw.row, kw.ecol, c, P)>>)

LayElse(a, pr, pecol, c, P) == LayElseAfter(ElseKeyword(pr, pecol, c, P), a, c, P)

LayIfAfter(cons, sk, r, kc, c, P) ==
  Tree("if_statement",
       <<Leaf("if", FALSE, r, kc, 2), Paren(r, kc + 3), cons>>
         \o (IF sk.alt = <<>> THEN <<>>
             ELSE <<InField("alternative", LayElse(sk.alt[1], cons.erow, cons.ecol, c, P))>>))

\* an if statement whose keyword is at (r, kc), laid out for the column c
LayIf(sk, r, kc, c, P) ==
  LayIfAfter(InField("consequence", LayBody(sk, r, kc + 6, c, P)), sk, r, kc, c, P)

\* the statements after a case label that ends at (r, hecol)
LayCaseBody(sk, r, kc, hecol, P) ==
  IF sk.body = <<>> THEN <<>>
  ELSE IF sk.braced
  THEN <<LayBlock("compound_statement", sk.body, r, hecol, kc, kc + P.stmt, P)>>
  ELSE IF P.ubody = "same"
  THEN LaySeqAfter(Lay(sk.body[1], r, hecol + 1, hecol + 1, P), Tail(sk.body),
                   kc + P.stmt - 2, P)
  ELSE LaySeq(sk.body, r + 1, kc + P.stmt - 2, P)

\* do body while (x);
LayDo(body, r, kc, c) ==
  Tree("do_statement",
       <<Leaf("do", FALSE, r, kc, 2), body,
         Leaf("while", FALSE, body.erow + 1, c, 5), Paren(body.erow + 1, c + 6),
         Leaf(";", FALSE, body.erow + 1, c + 9, 1)>>)

\* the header of the statement sk: its tokens up to its body
Header(sk, r, kc) ==
  CASE sk.k = "for" ->        \* for (;;)
         <<Leaf("for", FALSE, r, kc, 3), Leaf("(", FALSE, r, kc + 4, 1),
           Leaf(";", FALSE, r, kc + 5, 1), Leaf(";", FALSE, r, kc + 6, 1),
           Leaf(")", FALSE, r, kc + 7, 1)>>
    [] sk.k = "while" ->      \* while (x)
         <<Leaf("while", FALSE, r, kc, 5), Paren(r, kc + 6)>>
    [] sk.k = "switch" ->     \* switch (x)
         <<Leaf("switch", FALSE, r, kc, 6), Paren(r, kc + 7)>>
    [] sk.k = "case" ->       \* case 1:
         <<Leaf("case", FALSE, r, kc, 4),
           InField("value", Leaf("number_literal", TRUE, r, kc + 5, 1)),
           Leaf(":", FALSE, r, kc + 6, 1)>>
    [] sk.k = "default" ->    \* default:
         <<Leaf("default", FALSE, r, kc, 7), Leaf(":", FALSE, r, kc + 7, 1)>>

\* a statement without statements inside
LaySimple(sk, r, kc) ==
  CASE sk.k = "expr" ->       \* y();
         Tree("expression_statement",
              <<Leaf("call_expression", TRUE, r, kc, 3), Leaf(";", FALSE, r, kc + 3, 1)>>)
    [] sk.k = "empty" ->      \* ;
         Tree("expression_statement", <<Leaf(";", FALSE, r, kc, 1)>>)
    [] sk.k = "break" ->      \* break;
         Tree("break_statement",
              <<Leaf("break", FALSE, r, kc, 5), Leaf(";", FALSE, r, kc + 5, 1)>>)
    [] sk.k = "continue" ->   \* continue;
         Tree("continue_statement",
              <<Leaf("continue", FALSE, r, kc, 8), Leaf(";", FALSE, r, kc + 8, 1)>>)
    [] sk.k = "decl" ->       \* int x;
         Tree("declaration",
              <<InField("type", Leaf("primitive_type", TRUE, r, kc, 3)),
                InField("declarator", Leaf("identifier", TRUE, r, kc + 4, 1)),
                Leaf(";", FALSE, r, kc + 5, 1)>>)
    [] sk.k = "field" ->      \* int x;  (a member of a struct)
         Tree("field_declaration",
              <<InField("type", Leaf("primitive_type", TRUE, r, kc, 3)),
                InField("declarator", Leaf("field_identifier", TRUE, r, kc + 4, 1)),
                Leaf(";", FALSE, r, kc + 5, 1)>>)
    [] sk.k = "enumerator" -> \* A  (a member of an enum)
         Tree("enumerator", <<InField("name", Leaf("identifier", TRUE, r, kc, 1))>>)

\* the statement sk with its keyword at (r, kc), laid out for the column c
Lay(sk, r, kc, c, P) ==
  CASE sk.k = "if" -> LayIf(sk, r, kc, c, P)
    [] sk.k \in {"for", "while"} ->
         Tree(sk.k \o "_statement",
              Header(sk, r, kc)
                \o <<InField("body", LayBody(sk, r, IF sk.k = "for" THEN kc + 8 ELSE kc + 9,
                                             c, P))>>)
    [] sk.k = "do" -> LayDo(InField("body", LayBody(sk, r, kc + 2, c, P)), r, kc, c)
    [] sk.k = "switch" ->
         Tree("switch_statement",
              Header(sk, r, kc)
                \o <<InField("body", LayBlock("compound_statement", sk.body, r, kc + 10, c,
                                              c + P.case, P))>>)
    [] sk.k \in {"case", "default"} ->
         Tree("case_statement",
              Header(sk, r, kc)
                \o LayCaseBody(sk, r, kc, IF sk.k = "case" THEN kc + 7 ELSE kc + 8, P))
    [] OTHER -> LaySimple(sk, r, kc)

\* the braces of a function body that starts at row r around its statements
FunctionBraces(kids, r) ==
  Tree("compound_statement",
       <<Leaf("{", FALSE, r, 0, 1)>> \o kids
         \o <<Leaf("}", FALSE, (IF kids = <<>> THEN r ELSE kids[Len(kids)].erow) + 1, 0, 1)>>)

\* the body of a function definition: the function.body capture
FunctionBody(sks, P, r) == FunctionBraces(LaySeq(sks, r + 1, P.top, P), r)

(***************************************************************************)
(* The skeletons.                                                          *)
(***************************************************************************)
Braced(s) == [body |-> <<s>>, braced |-> TRUE]

Unbraced(s) == [body |-> <<s>>, braced |-> FALSE]

\* the bodies a statement may have: {}, { s }, and the un-braced `y();` and `;`
BodiesOf(stmts) ==
  {[body |-> <<>>, braced |-> TRUE]} \cup {Braced(s) : s \in stmts}
    \cup {Unbraced(SkLeaf("expr")), Unbraced(SkLeaf("empty"))}

ElseBodies ==
  {Sk("else", b.body, b.braced, <<>>) :
     b \in {Braced(SkLeaf("expr")), Unbraced(SkLeaf("expr")), Unbraced(SkLeaf("empty"))}}

\* the else parts with at most n `else if` in a row
RECURSIVE ElseParts(_)
ElseParts(n) ==
  {<<>>} \cup {<<e>> : e \in ElseBodies}
    \cup (IF n = 0 THEN {}
          ELSE {<<Sk("if", <<SkLeaf("expr")>>, TRUE, a)>> : a \in ElseParts(n - 1)})

Ifs(stmts) ==
  {Sk("if", b.body, b.braced, <<>>) : b \in BodiesOf(stmts)}
    \cup {Sk("if", <<SkLeaf("expr")>>, TRUE, a) : a \in ElseParts(MaxChain) \ {<<>>}}

Loops(stmts) ==
  {Sk(k, b.body, b.braced, <<>>) : k \in {"for", "while", "do"}, b \in BodiesOf(stmts)}

\* the children of a switch body: case 1: break; / case 1: / default: /
\* default: break; / case 1: { y(); } / case 1: y(); break; / case 1: continue; /
\* int x;
CaseParts ==
  {Sk("case", <<SkLeaf("break")>>, FALSE, <<>>), Sk("case", <<>>, FALSE, <<>>),
   Sk("default", <<>>, FALSE, <<>>), Sk("default", <<SkLeaf("break")>>, FALSE, <<>>),
   Sk("case", <<SkLeaf("expr")>>, TRUE, <<>>),
   Sk("case", <<SkLeaf("expr"), SkLeaf("break")>>, FALSE, <<>>),
   Sk("case", <<SkLeaf("continue")>>, FALSE, <<>>),
   SkLeaf("decl")}

SeqsUpTo(S, n) == UNION {[1..k -> S] : k \in 0..n}

Switches == {Sk("switch", cs, TRUE, <<>>) : cs \in SeqsUpTo(CaseParts, MaxCases)}

SimpleStmts == {SkLeaf("expr"), SkLeaf("continue"), SkLeaf("decl")}

\* the statements whose bodies hold simple statements only
Flat == SimpleStmts \cup Ifs(SimpleStmts) \cup Loops(SimpleStmts) \cup Switches

\* one statement of each compound kind, to nest others around
Core ==
  {Sk("if", <<SkLeaf("expr")>>, TRUE, <<>>),
   Sk("if", <<SkLeaf("expr")>>, TRUE, <<Sk("else", <<SkLeaf("expr")>>, TRUE, <<>>)>>),
   Sk("for", <<SkLeaf("expr")>>, FALSE, <<>>),
   Sk("while", <<SkLeaf("expr")>>, TRUE, <<>>),
   Sk("while", <<SkLeaf("empty")>>, FALSE, <<>>),
   Sk("do", <<SkLeaf("expr")>>, TRUE, <<>>),
   Sk("switch", <<Sk("case", <<SkLeaf("break")>>, FALSE, <<>>)>>, TRUE, <<>>)}

\* each statement of S one level further in
Wrap(S) ==
  {Sk(k, <<s>>, TRUE, <<>>) : k \in {"if", "for", "while", "do"}, s \in S}
    \cup {Sk("if", <<SkLeaf("expr")>>, TRUE, <<Sk("else", <<s>>, TRUE, <<>>)>>) : s \in S}
    \cup {Sk("switch", <<Sk("case", <<s>>, b, <<>>)>>, TRUE, <<>>) : s \in S, b \in BOOLEAN}

\* statements nested d levels deep
RECURSIVE Nested(_)
Nested(d) == IF d <= 1 THEN Core ELSE Wrap(Nested(d - 1))

Skeletons == Flat \cup UNION {Nested(d) : d \in 2..MaxDepth}

\* the statements of a function body: one statement, or a compound one and `y();`
FunctionSkeletons ==
  {<<s>> : s \in Skeletons} \cup {<<s, SkLeaf("expr")>> : s \in Core}

FunctionBodies == {FunctionBody(sks, P, 0) : sks \in FunctionSkeletons, P \in Layouts}

(***************************************************************************)
(* struct and enum specifiers: the structs and enums captures.             *)
(***************************************************************************)
TagNames == {<<"f", "_", "s">>, <<"f", "_", "e">>, <<"f">>}

TagLayouts ==
  [open : {"own", "same"}, brace : {0, 2}, closeat : {"own", "same"}, close : {0, 2},
   member : {2, 4}, col : {0, 2}]

\* struct f_s { int x; } laid out by P; name <<>>: anonymous; no body: struct f_s
Tagged(kw, type, list, member, name, hasbody, P) ==
  LET k    == Leaf(kw, FALSE, 0, P.col, Len(kw))
      n    == IF name = <<>> THEN <<>>
              ELSE <<WithText(name, InField("name",
                        Leaf("type_identifier", TRUE, 0, k.ecol + 1, Len(name))))>>
      head == <<k>> \o n
      last == head[Len(head)]
      body == IF hasbody
              THEN <<InField("body", LayBlock(list, <<SkLeaf(member)>>, 0, last.ecol, P.col,
                                              P.col + P.member, P))>>
              ELSE <<>>
  IN Tree(type, head \o body)

Structs ==
  {Tagged("struct", "struct_specifier", "field_declaration_list", "field", n, b, P) :
     n \in TagNames \cup {<<>>}, b \in BOOLEAN, P \in TagLayouts}

Enums ==
  {Tagged("enum", "enum_specifier", "enumerator_list", "enumerator", n, b, P) :
     n \in TagNames \cup {<<>>}, b \in BOOLEAN, P \in TagLayouts}

(***************************************************************************)
(* Captured nodes that are checked by their text: the                      *)
(* expression.paranthesis, list.arguments and declarator.pointer captures. *)
(* parent is m.parent.type; has_prev is m.prev_sibling is not None, and    *)
(* prev_ecol is m.prev_sibling.end_point.column.                           *)
(***************************************************************************)
\* a first function of a file, and the row its second function starts at
SampleFunction ==
  FunctionBody(<<Sk("if", <<SkLeaf("expr")>>, TRUE, <<>>)>>, BaseLayout, 0)

SecondRow == SampleFunction.erow + 2

TextNode(type, text, parent, has_prev, gap) ==
  [type |-> type, row |-> 27, col |-> 8, text |-> text, parent |-> parent,
   has_prev |-> has_prev, prev_ecol |-> IF has_prev THEN 8 - gap ELSE 0]

Gap == {<<>>, <<" ">>}

\* the operators the spacing rule is about, and others C has
ListedOperators ==
  {<<"|", "|">>, <<"&", "&">>, <<"<", "<", "=">>, <<">", ">", "=">>, <<"+", "=">>,
   <<"-", "=">>, <<"*", "=">>, <<"/", "=">>, <<"%", "=">>, <<"&", "=">>, <<"|", "=">>,
   <<"^", "=">>, <<"<", "=">>, <<">", "=">>, <<"!", "=">>, <<"=", "=">>}

OtherOperators == {<<"<">>, <<"=">>, <<"<", "<">>, <<">", ">">>, <<"-">>, <<"-", ">">>}

\* (a op b), with or without a blank on either side of the operator
OperatorTexts ==
  {Concat(<<<<"(", "a">>, s1, op, s2, <<"b", ")">>>>) :
     op \in ListedOperators \cup OtherOperators, s1 \in Gap, s2 \in Gap}

ParenTexts == {<<"(", "x", ")">>, <<"(", " ", "x", ")">>, <<"(", "a", "=", "=", "b", ")">>}

ParenParents ==
  {"if_statement", "for_statement", "while_statement", "do_statement", "switch_statement",
   "return_statement", "binary_expression"}

Parens ==
  {TextNode("parenthesized_expression", t, "binary_expression", TRUE, 1) : t \in OperatorTexts}
    \cup {TextNode("parenthesized_expression", t, p, TRUE, g) :
            t \in ParenTexts, p \in ParenParents, g \in 0..2}
    \cup {TextNode("parenthesized_expression", t, p, FALSE, 0) :
            t \in ParenTexts, p \in ParenParents}

\* the arguments of a call: x, "a,b", "b", ',', 'a'
ArgTokens ==
  {<<"x">>, <<"\"", "a", ",", "b", "\"">>, <<"\"", "b", "\"">>, <<"'", ",", "'">>,
   <<"'", "a", "'">>}

RECURSIVE ArgLists(_)
ArgLists(n) ==
  IF n <= 1 THEN ArgTokens
  ELSE ArgLists(n - 1)
         \cup {Concat(<<l, <<",">>, g, a>>) : l \in ArgLists(n - 1), g \in Gap, a \in ArgTokens}

Arguments ==
  {TextNode("argument_list", <<"(">> \o l \o <<")">>, "call_expression", TRUE, 0) :
     l \in ArgLists(MaxArgs)}

Pointers ==
  {TextNode("pointer_declarator", t, "declaration", TRUE, 1) :
     t \in {<<"*", "p">>, <<"F", "A", "R", " ", "*", "p">>, <<"F", "A", "R", "*", "p">>,
            <<"*", " ", "*", "p">>}}

(***************************************************************************)
(* The files checked: the captures the query engine returns for them.      *)
(***************************************************************************)
Groups ==
  <<"function.body", "expression.paranthesis", "list.arguments", "structs", "enums",
    "declarator.pointer">>

Done == Len(Groups) + 1

\* the tree of node, rows further down the file
RECURSIVE MoveDown(_, _)
MoveDown(node, rows) ==
  [node EXCEPT !.row = @ + rows, !.erow = @ + rows,
               !.children = IF node.children = <<>> THEN <<>>
                            ELSE [k \in 1..Len(node.children) |->
                                    MoveDown(node.children[k], rows)]]

Inputs ==
  {"function.body" :> <<b>> : b \in FunctionBodies}
    \cup {"expression.paranthesis" :> <<m>> : m \in Parens}
    \cup {"list.arguments" :> <<m>> : m \in Arguments}
    \cup {"structs" :> <<m>> : m \in Structs}
    \cup {"enums" :> <<m>> : m \in Enums}
    \cup {"declarator.pointer" :> <<m>> : m \in Pointers}
    \cup {("function.body" :> <<SampleFunction, b>>) @@ ("expression.paranthesis" :> <<m, m>>)
            @@ ("structs" :> <<t>>) :
            b \in {FunctionBody(<<s>>, BaseLayout, SecondRow) : s \in Core},
            m \in {TextNode("parenthesized_expression", <<"(", "x", ")">>, "if_statement", h, 1) :
                     h \in BOOLEAN},
            t \in {MoveDown(n, SecondRow + 10) :
                     n \in {n \in Structs : n.col = 0 /\ Len(n.children) = 3
                                             /\ n.children[2].text = <<"f", "_", "s">>}}}
    \cup {<<>>}

(***************************************************************************)
(* check_style                                                             *)
(***************************************************************************)
Init ==
  /\ captures \in Inputs
  /\ nuttx_codebase \in (IF "declarator.pointer" \in DOMAIN captures THEN BOOLEAN ELSE {TRUE})
  /\ group = 0
  /\ idx = 1
  /\ out = <<>>
  /\ raised = FALSE
  /\ calls = {}
  /\ bodies = {}
  /\ spaced = {}

\* the loop of check_style over the group named g has a capture left
At(g) ==
  /\ ~raised
  /\ group \in 1..Len(Groups)
  /\ Groups[group] = g
  /\ idx <= Len(captures[g])

\* one pass of a loop that runs the layout validator: the result r is taken over
Layout(r) ==
  /\ out' = out \o r.out
  /\ raised' = r.raised
  /\ calls' = calls \cup r.calls
  /\ bodies' = bodies \cup r.bodies
  /\ idx' = idx + 1
  /\ UNCHANGED <<captures, nuttx_codebase, group, spaced>>

\* one pass of a loop that prints ds, running the spacing validator or not
Textual(ds, ran) ==
  /\ out' = out \o ds
  /\ spaced' = IF ran THEN spaced \cup {<<Groups[group], idx>>} ELSE spaced
  /\ idx' = idx + 1
  /\ UNCHANGED <<captures, nuttx_codebase, group, raised, calls, bodies>>

\* for n in iter(m.named_children): self.__check_indents(2, n)
CheckFunctionBody ==
  /\ At("function.body")
  /\ Layout(check_each("check_style", 0, "function.body", FunctionBodyIndent,
                       named_children(captures["function.body"][idx]), 1))

\* the body of the loop over expression.paranthesis
check_paranthesis(m) ==
  IF m.parent # "None" /\ m.parent \in KeywordParents
  THEN IF ~m.has_prev
       THEN [out |-> <<>>, ran |-> FALSE]     \* continue
       ELSE [out |-> check_keyword_space(m) \o check_whitespaces(m), ran |-> TRUE]
  ELSE [out |-> check_whitespaces(m), ran |-> TRUE]

CheckParanthesis ==
  /\ At("expression.paranthesis")
  /\ LET r == check_paranthesis(captures["expression.paranthesis"][idx])
     IN Textual(r.out, r.ran)

CheckArguments ==
  /\ At("list.arguments")
  /\ Textual(check_whitespaces(captures["list.arguments"][idx]), TRUE)

CheckStructs ==
  /\ At("structs")
  /\ Layout(check_structs(captures["structs"][idx]))

CheckEnums ==
  /\ At("enums")
  /\ Layout(check_enums(captures["enums"][idx]))

CheckPointerDeclarator ==
  /\ At("declarator.pointer")
  /\ Textual(check_pointer_declarator(nuttx_codebase, captures["declarator.pointer"][idx]),
             FALSE)

\* the next group, after group k, that is a key of self.captures
NextPresent(k) ==
  IF \E j \in (k + 1)..Len(Groups) : Groups[j] \in DOMAIN captures
  THEN CHOOSE j \in (k + 1)..Len(Groups) :
         Groups[j] \in DOMAIN captures
           /\ \A i \in (k + 1)..(j - 1) : Groups[i] \notin DOMAIN captures
  ELSE Done

\* a loop is over (or check_style starts): on to the next `if ... in self.captures`
\* that holds, or to the end of check_style
NextGroup ==
  /\ ~raised
  /\ group < Done
  /\ IF group = 0 THEN TRUE ELSE idx > Len(captures[Groups[group]])
  /\ group' = NextPresent(group)
  /\ idx' = 1
  /\ UNCHANGED <<captures, nuttx_codebase, out, raised, calls, bodies, spaced>>

Next ==
  \/ CheckFunctionBody
  \/ CheckParanthesis
  \/ CheckArguments
  \/ CheckStructs
  \/ CheckEnums
  \/ CheckPointerDeclarator
  \/ NextGroup

Spec == Init /\ [][Next]_vars

(***************************************************************************)
(* Properties.                                                             *)
(***************************************************************************)
Printed == {out[k] : k \in 1..Len(out)}

IsWrongIndentation(d) == d.msg = "Wrong indentation"

\* the diagnostics printed for the point (row, col)
WrongIndentationsAt(row, col) ==
  {d \in Printed : IsWrongIndentation(d) /\ d.row = row /\ d.col = col}

\* the token at (row, col), whose column to compare is actual, was checked
\* against the column expected: a diagnostic if and only if they differ
CheckedAt(row, col, actual, expected) ==
  WrongIndentationsAt(row, col) =
    IF actual # expected THEN {WrongIndentation(row, col, expected, actual)} ELSE {}

Position(g) == CHOOSE j \in 1..Len(Groups) : Groups[j] = g

\* the loop over group g has dealt with its capture k
Processed(g, k) ==
  /\ g \in DOMAIN captures
  /\ k \in 1..Len(captures[g])
  /\ Position(g) < group \/ (Position(g) = group /\ k < idx)

Range(f) == {f[k] : k \in DOMAIN f}

\* C1: the layout validator never fails the run on an unexpected node shape:
\* whatever tree the function.body, structs and enums captures hold (a case
\* label with nothing after its colon, a loop or else body of fewer than two
\* children such as `;`), the traversal ends without raising an error.
C1_NeverRaises == raised = FALSE

\* the compound statement of the __check_body call b has its opening brace on a
\* row of its own at column indent, its named children printed nothing, and its
\* closing brace starts on the row its last child starts on
C2_Case(b) ==
  LET n == Len(b.node.children) IN
  /\ b.node.type = "compound_statement"
  /\ n >= 2
  /\ b.node.children[1].row # b.node.children[2].row
  /\ b.node.children[1].col = b.indent
  /\ b.kids = <<>>
  /\ b.node.children[n].row = b.node.children[n - 1].row

\* C2 as stated: a compound statement with a well placed opening brace, silent
\* children and a closing brace on the row of the child before it gets exactly
\* one diagnostic from its __check_body call.
C2_ExactlyOne ==
  \A b \in bodies : C2_Case(b) /\ b.kidsdone => Len(b.open) + Len(b.close) = 1

\* C2 amended: such a call prints nothing for the opening brace and, for the
\* closing brace, "Right bracket not on separate line" followed by "Wrong
\* indentation" at the closing brace whenever its column is not indent, which
\* it never is when the child before it starts at indent or further right:
\* two diagnostics, not one (and none when a child's check raised).
C2_RowAndColumn ==
  \A b \in bodies :
    C2_Case(b) =>
      LET n    == Len(b.node.children)
          last == b.node.children[n]
      IN /\ b.open = <<>>
         /\ IF b.kidsdone
            THEN /\ b.close =
                      <<Diag("Right bracket not on separate line", b.node.row, b.node.col)>>
                        \o (IF last.col # b.indent
                            THEN <<WrongIndentation(last.row, last.col, b.indent, last.col)>>
                            ELSE <<>>)
                 /\ b.node.children[n - 1].col >= b.indent => Len(b.close) = 2
            ELSE b.close = <<>>

C2_Witness ==
  \E b \in bodies : C2_Case(b) /\ b.kidsdone /\ b.returned /\ Len(b.close) = 2

\* the only capture of the file is one struct, and check_style has dealt with it
OneStructDone ==
  /\ DOMAIN captures = {"structs"}
  /\ Processed("structs", 1)

\* struct f_s, one member at the struct's column + 2, the closing brace on its
\* own row at the struct's column
C3_Shape(n) ==
  /\ n.type = "struct_specifier"
  /\ Len(n.children) = 3
  /\ n.children[2].field = "name"
  /\ EndsWith(n.children[2].text, <<"_", "s">>)
  /\ Len(n.children[3].children) = 3
  /\ n.children[3].children[2].col = n.col + 2
  /\ n.children[3].children[3].row # n.children[3].children[2].row
  /\ n.children[3].children[3].col = n.col

\* C3 as stated: struct f_s { int x; } with the opening brace on the row of the
\* struct keyword, the member at the struct's column + 2 and the closing brace
\* on its own row at the struct's column yields no diagnostic.
C3_SameRowBraceClean ==
  OneStructDone =>
    LET n == captures["structs"][1] IN
    C3_Shape(n) /\ n.children[3].row = n.row => out = <<>>

\* C3 amended: that struct yields exactly two diagnostics, both at the opening
\* brace: "Left bracket not on separate line" and "Wrong indentation" (expected
\* the struct's column); with the opening brace alone on the next row at the
\* struct's column instead, it yields none.
C3_SameRowBraceFlagged ==
  OneStructDone =>
    LET n    == captures["structs"][1]
        body == n.children[3]
    IN C3_Shape(n) =>
         /\ body.row = n.row =>
              out = <<Diag("Left bracket not on separate line", body.row, body.col),
                      WrongIndentation(body.row, body.col, n.col, body.col)>>
         /\ body.row # n.row /\ body.col = n.col => out = <<>>

C3_Witness ==
  /\ OneStructDone
  /\ C3_Shape(captures["structs"][1])
  /\ captures["structs"][1].children[3].row = captures["structs"][1].row
  /\ Len(out) = 2

\* the if statement of the call c starts at its expected indent, its consequence
\* is a compound statement that opens on the row of the `if`, holds expression
\* statements at indent + 4 and closes on a row of its own at indent + 2
C4_Case(c) ==
  LET cons == child_by_field_name(c.node, "consequence")
      k    == Len(cons.children)
  IN /\ c.fn = "__check_indents_if_statement"
     /\ c.node.type = "if_statement"
     /\ c.node.col = c.indent
     /\ cons.type = "compound_statement"
     /\ cons.row = c.node.row
     /\ k >= 3
     /\ \A j \in 2..(k - 1) :
          cons.children[j].type = "expression_statement"
            /\ cons.children[j].col = c.indent + 4
     /\ cons.children[k].row # cons.children[k - 1].row
     /\ cons.children[k].col = c.indent + 2

\* the "Wrong indentation" diagnostics at the if, its braces and its body
C4_Indentations(c) ==
  LET cons == child_by_field_name(c.node, "consequence")
  IN {i \in 1..Len(out) :
        /\ IsWrongIndentation(out[i])
        /\ \E n \in {c.node, cons} \cup Range(cons.children) :
             out[i].row = n.row /\ out[i].col = n.col}

C4_LeftBracket(c) ==
  LET cons == child_by_field_name(c.node, "consequence")
  IN Cardinality({i \in 1..Len(out) :
         out[i] = Diag("Left bracket not on separate line", cons.row, cons.col)}) = 1

\* C4 as stated: for an if at its expected indent whose consequence opens on
\* the row of the `if`, "Left bracket not on separate line" is printed at the
\* opening brace and no "Wrong indentation" is printed for the if statement
\* when its body and closing brace are at their expected columns.
C4_NoIndentation ==
  \A c \in calls : C4_Case(c) => C4_LeftBracket(c) /\ C4_Indentations(c) = {}

\* C4 amended: "Left bracket not on separate line" is printed at the opening
\* brace, and exactly one "Wrong indentation" for that if statement: the one of
\* the opening brace, which is expected at indent + 2 and, sharing the row of
\* `if (...)`, is never there; none for the if, its body or its closing brace.
C4_BraceIndentation ==
  \A c \in calls :
    C4_Case(c) =>
      LET cons == child_by_field_name(c.node, "consequence")
      IN /\ C4_LeftBracket(c)
         /\ \E i \in 1..Len(out) :
              /\ C4_Indentations(c) = {i}
              /\ out[i] = WrongIndentation(cons.row, cons.col, c.indent + 2, cons.col)

C4_Witness == \E c \in calls : C4_Case(c) /\ c.indent > FunctionBodyIndent

\* the commas of t[i..] that lie outside every string and character literal of
\* C; q is the quote of the literal position i is in, "" outside literals
RECURSIVE BareCommas(_, _, _)
BareCommas(t, i, q) ==
  IF i > Len(t) THEN {}
  ELSE IF q # "" THEN BareCommas(t, i + 1, IF t[i] = q THEN "" ELSE q)
  ELSE IF t[i] \in {"\"", "'"} THEN BareCommas(t, i + 1, t[i])
  ELSE (IF t[i] = "," THEN {i} ELSE {}) \cup BareCommas(t, i + 1, "")

\* the spacing validator was run on capture k of group g, alone in its file
SpacedAlone(g, k) ==
  /\ DOMAIN captures = {g}
  /\ <<g, k>> \in spaced

\* C5: a comma inside a string or character literal never causes "Missing
\* whitespaces after comma", and a comma outside every literal that is not
\* followed by whitespace always causes one, whatever literals occur elsewhere
\* in the argument list.
C5_QuotedCommaExempt ==
  \A k \in 1..Len(out) + 1 :
    SpacedAlone("list.arguments", k) =>
      LET t == captures["list.arguments"][k].text IN
      (\E d \in Printed : d.msg = "Missing whitespaces after comma")
        <=> (\E i \in BareCommas(t, 1, "") : ~IsWs(t, i + 1))

\* the punctuators of C made of the characters the operator pattern is about
Punctuators == ListedOperators \cup OtherOperators

\* the length of the token of C that starts at t[i]: the longest punctuator
\* there, or one character
TokenLen(t, i) ==
  LET here == {Len(w) : w \in {w \in Punctuators : StartsAt(t, i, w)}} IN
  IF here = {} THEN 1 ELSE CHOOSE n \in here : \A m \in here : m <= n

\* <<start, length>> of the tokens of t[i..] that are listed operators
RECURSIVE ListedTokens(_, _)
ListedTokens(t, i) ==
  IF i > Len(t) THEN {}
  ELSE LET n == TokenLen(t, i) IN
       (IF SubSeq(t, i, i + n - 1) \in ListedOperators THEN {<<i, n>>} ELSE {})
         \cup ListedTokens(t, i + n)

\* C6: "Missing whitespaces before operator" is emitted if and only if the text
\* holds a token of the listed set, each taken as one whole token, that is not
\* immediately preceded by whitespace; likewise "Missing whitespaces after
\* operator" and a token not immediately followed by whitespace.
C6_OperatorSpacing ==
  \A g \in {"expression.paranthesis", "list.arguments"} :
    \A k \in 1..Len(out) + 1 :
      SpacedAlone(g, k) =>
        LET t == captures[g][k].text IN
        /\ (\E d \in Printed : d.msg = "Missing whitespaces before operator")
             <=> (\E x \in ListedTokens(t, 1) : ~IsWs(t, x[1] - 1))
        /\ (\E d \in Printed : d.msg = "Missing whitespaces after operator")
             <=> (\E x \in ListedTokens(t, 1) : ~IsWs(t, x[1] + x[2]))

Roots == {"check_style", "__check_structs", "__check_enums"}

\* C8: along every recursion path of the layout validator the expected indent
\* handed to a nested call is never smaller than the caller's, and every
\* compound statement handled by __check_body hands each named child exactly
\* 2 more than the indent its own braces are checked against.
C8_MonotonicIndent ==
  /\ \A c \in calls : c.from \notin Roots => c.indent >= c.findent
  /\ \A b \in bodies :
       \A d \in Range(b.open \o b.close) : IsWrongIndentation(d) => d.exp = b.indent
  /\ \A c \in calls :
       c.from = "__check_body" /\ c.via = "named_child" =>
         \E b \in bodies :
           /\ b.indent = c.findent
           /\ c.node \in Range(named_children(b.node))
           /\ c.indent = b.indent + 2

\* a compound statement inside a compound statement, both with braces found at
\* a wrong column, and a statement checked inside the inner one
C8_Witness ==
  \E b1 \in bodies, b2 \in bodies, c \in calls :
    /\ b2.node \in Range(named_children(b1.node)) \/
         \E s \in Range(named_children(b1.node)) : b2.node \in Range(s.children)
    /\ b2.indent > b1.indent
    /\ \E d \in Range(b2.open \o b2.close) : IsWrongIndentation(d)
    /\ c.from = "__check_body" /\ c.via = "named_child"
    /\ c.findent = b2.indent
    /\ c.node \in Range(named_children(b2.node))

\* the for statement of the call c has an un-braced expression statement with
\* named children as its body
C9_Case(c) ==
  LET body == child_by_field_name(c.node, "body") IN
  /\ c.fn = "__check_indents_for_statement"
  /\ FieldIndex(c.node, "body") > 1
  /\ body.type = "expression_statement"
  /\ Len(named_children(body)) > 0

\* C9: the un-braced body statement of a for statement checked at indent i gets
\* a "Wrong indentation" diagnostic whenever it does not start at column
\* i + 4, and none when it does.
C9_UnbracedBodyChecked ==
  \A c \in calls :
    C9_Case(c) =>
      LET body == child_by_field_name(c.node, "body") IN
      (body.col # c.indent + 4) <=> WrongIndentationsAt(body.row, body.col) # {}

\* the node types __check_indents has a case for: the others are returned
\* from before the column is looked at
CheckedKinds ==
  PropagatingKinds
    \cup {"if_statement", "else_clause", "for_statement", "while_statement", "do_statement",
          "switch_statement"}

\* the statement s was checked against column: every kind of statement when
\* all, only the kinds of CheckedKinds (and the others not at all) otherwise
StatementChecked(s, column, all) ==
  IF all \/ s.type \in CheckedKinds THEN CheckedAt(s.row, s.col, s.col, column)
  ELSE WrongIndentationsAt(s.row, s.col) = {}

\* what C10 says of the case statement k of a switch checked at indent i
C10_CaseContents(k, i, all) ==
  LET offset == CaseOffset(k.children[1])
      n      == Len(k.children)
  IN IF n <= offset THEN TRUE
     ELSE IF k.children[offset + 1].type = "compound_statement"
     THEN LET b == k.children[offset + 1]
              m == Len(b.children)
          IN /\ CheckedAt(b.row, b.col, b.col, i + 6)
             /\ CheckedAt(b.children[m].row, b.children[m].col, b.children[m].col, i + 6)
             /\ \A j \in 2..(m - 1) : StatementChecked(b.children[j], i + 8, all)
     ELSE \A j \in (offset + 1)..n : StatementChecked(k.children[j], i + 6, all)

C10_Case(c) ==
  /\ c.fn = "__check_indents_switch_statement"
  /\ FieldIndex(c.node, "body") > 1

C10_Checked(c, all) ==
  LET i     == c.indent
      body  == child_by_field_name(c.node, "body")
      n     == Len(body.children)
      close == body.children[n]
  IN /\ CheckedAt(body.row, body.col, body.col, i + 2)
     /\ CheckedAt(close.row, close.col, close.col, i + 2)
     /\ \A j \in 2..(n - 1) :
          IF body.children[j].type = "case_statement"
          THEN /\ CheckedAt(body.children[j].row, body.children[j].col,
                            body.children[j].col, i + 4)
               /\ C10_CaseContents(body.children[j], i, all)
          ELSE WrongIndentationsAt(body.children[j].row, body.children[j].col) = {}

\* C10: for a switch statement checked at indent i whose body has a preceding
\* sibling, both braces of the body are checked against column i + 2, every
\* case statement against i + 4, each statement under a case label against
\* i + 6, a compound statement after the colon against i + 6 (its braces) and
\* i + 8 (its statements); other named children of the body are not checked.
C10_SwitchColumns == \A c \in calls : C10_Case(c) => C10_Checked(c, TRUE)

\* in a run that no exception ended, C10 holds of every switch statement for
\* the statements of the kinds __check_indents has a case for; the statements
\* of other kinds are not checked
C10_UnlessRaised == raised \/ \A c \in calls : C10_Case(c) => C10_Checked(c, FALSE)

\* what C11 says of a consequence or a final else body b that is a compound
\* statement, in a chain checked at indent i
C11_Body(b, i, all) ==
  LET n == Len(b.children) IN
  b.type = "compound_statement" /\ n >= 2 =>
    /\ CheckedAt(b.row, b.col, b.children[1].col, i + 2)
    /\ CheckedAt(b.children[n].row, b.children[n].col, b.children[n].col, i + 2)
    /\ \A s \in Range(named_children(b)) : StatementChecked(s, i + 4, all)

\* what C11 says of the if statement n of a chain checked at indent i, and of
\* the chain after it
RECURSIVE C11_Chain(_, _, _)
C11_Chain(n, i, all) ==
  LET consequence == child_by_field_name(n, "consequence")
      alternative == child_by_field_name(n, "alternative")
  IN /\ consequence # None => C11_Body(consequence, i, all)
     /\ alternative # None /\ Len(alternative.children) >= 2 =>
          LET second_child == alternative.children[2] IN
          /\ CheckedAt(alternative.row, alternative.col, alternative.col, i)
          /\ IF second_child.type = "if_statement"
             THEN /\ (second_child.row # alternative.row
                        <=> Diag("If keyword not inlined with else keyword",
                                 second_child.row, second_child.col) \in Printed)
                  /\ C11_Chain(second_child, i, all)
             ELSE C11_Body(second_child, i, all)

\* the call c is the layout validator's dispatch of an if statement
C11_Case(c) ==
  /\ c.fn = "__check_indents_if_statement"
  /\ c.node.type = "if_statement"

\* C11: an else / else-if chain stays at the original nesting level: for an if
\* statement checked at indent i, every else_clause of its chain is checked
\* against column i, every consequence and final else body has its braces
\* checked against i + 2 and its statements against i + 4, and each `if` of an
\* `else if` gets "If keyword not inlined with else keyword" exactly when it
\* does not start on the row of its `else`, however long the chain is.
C11_ElseChain == \A c \in calls : C11_Case(c) => C11_Chain(c.node, c.indent, TRUE)

\* in a run that no exception ended, C11 holds of every if statement for the
\* statements of the kinds __check_indents has a case for; the statements of
\* other kinds are not checked
C11_UnlessRaised ==
  raised \/ \A c \in calls : C11_Case(c) => C11_Chain(c.node, c.indent, FALSE)

====
